---------------------------- MODULE Spec2Model ----------------------------
(***************************************************************************)
(* Model of the Swedish nameday service.                                   *)
(*                                                                         *)
(*   fetch.py : parse_tables, the extractor that turns the rows of the     *)
(*              wiki tables into a mapping  "MM-DD" -> list of names.      *)
(*   main.py  : the service that serves the mapping from the process-wide  *)
(*              NAMEDAYS and replaces it on POST /api/refresh.             *)
(*                                                                         *)
(* Text is modelled as a sequence of one-character strings, so that        *)
(* lower(), split(), replace(), re.sub() and the f-string formatting are   *)
(* computed character by character as Python computes them.               *)
(*                                                                         *)
(* A mapping (a Python dict) is a function from keys to name lists.  The   *)
(* insertion order of a dict is not modelled: dict equality ignores it.    *)
(***************************************************************************)
EXTENDS Integers, Sequences, FiniteSets, TLC

VARIABLES
    \* ---- one run of parse_tables (fetch.py), row by row
    corpus,      \* which family of rows the page under extraction is made of
    pc,          \* position of the run: "tables", "header", "rows", "returned", "raised"
    result,      \* the dict `result` being accumulated
    lastRow,     \* the cells (cols) of the row handled by the latest Row step
    tableNo,     \* number of candidate tables entered so far
    rowNo,       \* number of data rows handled so far
    \* ---- the service (main.py)
    API_KEY,     \* NAMEDAY_API_KEY as read at start-up ("" when not set)
    kvEnabled,   \* whether `kv` is a Redis client (KV_REST_API_URL set)
    kvStore,     \* the KV entry "namedays"
    fileStore,   \* the JSON file svenska_namnsdagar.json
    NAMEDAYS,    \* the served table
    request,     \* the latest request handled
    response,    \* the response to it
    fetchCalls,  \* number of calls of fetch_html so far
    fetched,     \* what the latest call of fetch_html gave
    lastData,    \* the data written by the latest successful refresh
    writes       \* number of refreshes that have written their data

extractVars == <<corpus, pc, result, lastRow, tableNo, rowNo>>
serviceVars == <<API_KEY, kvEnabled, kvStore, fileStore, NAMEDAYS, request,
                 response, fetchCalls, fetched, lastData, writes>>
vars == <<corpus, pc, result, lastRow, tableNo, rowNo, API_KEY, kvEnabled,
          kvStore, fileStore, NAMEDAYS, request, response, fetchCalls, fetched,
          lastData, writes>>

---------------------------------------------------------------------------
(* Bounds of the model.                                                    *)

\* data rows of one page of the "mixed" corpus
MaxRows == 2
\* candidate tables of one page
MaxTables == 2
\* tokens a generated names cell is made of
MaxToks == 5
\* calls of fetch_html in one behaviour of the service
MaxFetch == 3

---------------------------------------------------------------------------
(* Characters and Python's string primitives.                              *)

Lowercase == <<"a","b","c","d","e","f","g","h","i","j","k","l","m","n","o",
               "p","q","r","s","t","u","v","w","x","y","z","å","ä","ö">>
Uppercase == <<"A","B","C","D","E","F","G","H","I","J","K","L","M","N","O",
               "P","Q","R","S","T","U","V","W","X","Y","Z","Å","Ä","Ö">>
Digits == <<"0","1","2","3","4","5","6","7","8","9">>

\* characters str.split() and str.strip() treat as whitespace; the pages
\* modelled hold no other whitespace than the space
Whitespace == {" "}

\* str.lower(), one character
LowerChar(c) ==
    IF \E i \in DOMAIN Uppercase : Uppercase[i] = c
    THEN Lowercase[CHOOSE i \in DOMAIN Uppercase : Uppercase[i] = c]
    ELSE c

\* str.lower()
Lower(s) == [i \in DOMAIN s |-> LowerChar(s[i])]

\* str.split() without argument: the maximal runs of non-whitespace
RECURSIVE SplitScan(_, _, _)
SplitScan(s, cur, out) ==
    IF s = <<>>
    THEN IF cur = <<>> THEN out ELSE Append(out, cur)
    ELSE IF Head(s) \in Whitespace
         THEN SplitScan(Tail(s), <<>>, IF cur = <<>> THEN out ELSE Append(out, cur))
         ELSE SplitScan(Tail(s), Append(cur, Head(s)), out)

Split(s) == SplitScan(s, <<>>, <<>>)

\* str.split(","): every fragment between commas, empty ones included
RECURSIVE SplitCommaScan(_, _, _)
SplitCommaScan(s, cur, out) ==
    IF s = <<>>
    THEN Append(out, cur)
    ELSE IF Head(s) = ","
         THEN SplitCommaScan(Tail(s), <<>>, Append(out, cur))
         ELSE SplitCommaScan(Tail(s), Append(cur, Head(s)), out)

SplitComma(s) == SplitCommaScan(s, <<>>, <<>>)

\* str.strip()
RECURSIVE LStrip(_)
LStrip(s) ==
    IF s # <<>> /\ Head(s) \in Whitespace THEN LStrip(Tail(s)) ELSE s

RECURSIVE RStrip(_)
RStrip(s) ==
    IF s # <<>> /\ s[Len(s)] \in Whitespace
    THEN RStrip(SubSeq(s, 1, Len(s) - 1))
    ELSE s

Strip(s) == RStrip(LStrip(s))

\* the conjunction that names_part.replace(" och ", ",") looks for
Och == <<" ", "o", "c", "h", " ">>

\* replace() that finds no conjunction
ReplaceOchNone(s) == s

\* names_part.replace(" och ", ","): leftmost, non-overlapping occurrences
RECURSIVE ReplaceOch(_)
ReplaceOch(s) ==
    IF s = <<>> THEN <<>>
    ELSE IF Len(s) >= Len(Och) /\ SubSeq(s, 1, Len(Och)) = Och
         THEN <<",">> \o ReplaceOch(SubSeq(s, Len(Och) + 1, Len(s)))
         ELSE <<Head(s)>> \o ReplaceOch(Tail(s))

\* re.sub() whose pattern matches nothing
SubParenKeep(s) == s

\* index of the first character of s at or after i that is not whitespace
\* (Len(s) + 1 when there is none): where the greedy \s* of the pattern stops
RECURSIVE SkipSpace(_, _)
SkipSpace(s, i) ==
    IF i <= Len(s) /\ s[i] \in Whitespace THEN SkipSpace(s, i + 1) ELSE i

\* re.sub(r"\s*\([^)]*\)", "", s): scanning from the left, a match starts at a
\* position whose whitespace run is followed by "(" with a ")" somewhere after
\* it, and ends at the first such ")"; the match is dropped and the scan goes
\* on behind it; a position with no match keeps its character
RECURSIVE SubParen(_)
SubParen(s) ==
    IF s = <<>> THEN <<>>
    ELSE LET j == SkipSpace(s, 1)
             closes == {k \in DOMAIN s : k > j /\ s[k] = ")"}
         IN  IF j <= Len(s) /\ s[j] = "(" /\ closes # {}
             THEN LET k == CHOOSE c \in closes : \A d \in closes : c <= d
                  IN  SubParen(SubSeq(s, k + 1, Len(s)))
             ELSE <<Head(s)>> \o SubParen(Tail(s))

\* value of a digit character
DigitVal(c) == (CHOOSE i \in DOMAIN Digits : Digits[i] = c) - 1

IsDigit(c) == \E i \in DOMAIN Digits : Digits[i] = c

RECURSIVE DigitsVal(_, _)
DigitsVal(s, acc) ==
    IF s = <<>> THEN acc ELSE DigitsVal(Tail(s), acc * 10 + DigitVal(Head(s)))

\* int(day): an optional sign and decimal digits; anything else raises
\* ValueError (ok = FALSE).  Digit separators and non-ASCII digits, which
\* int() also reads, do not occur in the pages modelled.
PyInt(s) ==
    LET signed == s # <<>> /\ Head(s) \in {"+", "-"}
        body   == IF signed THEN Tail(s) ELSE s
    IN  IF body # <<>> /\ \A i \in DOMAIN body : IsDigit(body[i])
        THEN [ok |-> TRUE,
              val |-> IF signed /\ Head(s) = "-"
                      THEN 0 - DigitsVal(body, 0) ELSE DigitsVal(body, 0)]
        ELSE [ok |-> FALSE, val |-> 0]

\* decimal digits of a natural number
RECURSIVE DecimalOf(_)
DecimalOf(n) ==
    IF n < 10 THEN <<Digits[n + 1]>>
    ELSE DecimalOf(n \div 10) \o <<Digits[(n % 10) + 1]>>

\* f"{n}": the number without padding
FormatNoPad(n) == IF n < 0 THEN <<"-">> \o DecimalOf(0 - n) ELSE DecimalOf(n)

\* f"{n:02d}": zero padding to a minimum width of two characters; the sign
\* counts in the width, so a negative number is never padded
Format02d(n) ==
    LET d == IF n < 0 THEN <<"-">> \o DecimalOf(0 - n) ELSE DecimalOf(n)
    IN  IF Len(d) >= 2 THEN d ELSE <<"0">> \o d

---------------------------------------------------------------------------
(* fetch.py: the month lexicon, the override sets and parse_tables.        *)

januari == <<"j","a","n","u","a","r","i">>
februari == <<"f","e","b","r","u","a","r","i">>
mars == <<"m","a","r","s">>
april == <<"a","p","r","i","l">>
maj == <<"m","a","j">>
juni == <<"j","u","n","i">>
juli == <<"j","u","l","i">>
augusti == <<"a","u","g","u","s","t","i">>
september == <<"s","e","p","t","e","m","b","e","r">>
oktober == <<"o","k","t","o","b","e","r">>
november == <<"n","o","v","e","m","b","e","r">>
december == <<"d","e","c","e","m","b","e","r">>

MonthNames == <<januari, februari, mars, april, maj, juni, juli, augusti,
                september, oktober, november, december>>

\* MONTH_MAP: month name -> two-digit code
MONTH_MAP ==
    (januari :> <<"0","1">>) @@
    (februari :> <<"0","2">>) @@
    (mars :> <<"0","3">>) @@
    (april :> <<"0","4">>) @@
    (maj :> <<"0","5">>) @@
    (juni :> <<"0","6">>) @@
    (juli :> <<"0","7">>) @@
    (augusti :> <<"0","8">>) @@
    (september :> <<"0","9">>) @@
    (oktober :> <<"1","0">>) @@
    (november :> <<"1","1">>) @@
    (december :> <<"1","2">>)

\* MONTH_MAP.get(month_sv, "00"): a lookup with a default code
MonthGetDefault(month_sv) ==
    IF month_sv \in DOMAIN MONTH_MAP THEN MONTH_MAP[month_sv] ELSE <<"0", "0">>

\* MONTH_MAP.get(month_sv): the code, or None (here the empty text; both are
\* false for `if not month`)
MonthGet(month_sv) ==
    IF month_sv \in DOMAIN MONTH_MAP THEN MONTH_MAP[month_sv] ELSE <<>>

\* the text "MM-DD" of a month code and a day text
DateKey(mm, dd) == mm \o <<"-">> \o dd

\* EMPTY_DATES: "01-01", "02-02", "02-29", "03-25", "06-24", "11-01", "12-25"
EMPTY_DATES ==
    { DateKey(<<"0","1">>, <<"0","1">>), DateKey(<<"0","2">>, <<"0","2">>), DateKey(<<"0","2">>, <<"2","9">>), DateKey(<<"0","3">>, <<"2","5">>),
      DateKey(<<"0","6">>, <<"2","4">>), DateKey(<<"1","1">>, <<"0","1">>), DateKey(<<"1","2">>, <<"2","5">>) }

\* DATES_WITH_JUNK: "04-30", "05-01", "12-24", "12-26", "12-28"
DATES_WITH_JUNK ==
    { DateKey(<<"0","4">>, <<"3","0">>), DateKey(<<"0","5">>, <<"0","1">>), DateKey(<<"1","2">>, <<"2","4">>), DateKey(<<"1","2">>, <<"2","6">>),
      DateKey(<<"1","2">>, <<"2","8">>) }

\* the empty dict
EmptyMap == [k \in {} |-> <<>>]

\* d[key] = names
Put(d, key, names) ==
    [k \in DOMAIN d \cup {key} |-> IF k = key THEN names ELSE d[k]]

NonEmpty(n) == n # <<>>

\* lines 88-92: the names of a date of DATES_WITH_JUNK
JunkNames(names_part) ==
    LET frags   == SplitComma(ReplaceOch(names_part))
        cleaned == [i \in DOMAIN frags |-> Strip(SubParen(frags[i]))]
    IN  SelectSeq(cleaned, NonEmpty)

\* lines 96-100: the names of any other date
DefaultNames(names_part) ==
    LET frags   == SplitComma(ReplaceOch(names_part))
        trimmed == [i \in DOMAIN frags |-> Strip(frags[i])]
    IN  SelectSeq(trimmed, NonEmpty)

\* the entry recorded when the strip-annotations test comes first and the
\* force-empty test is missing
RecordNoForceEmpty(d, month, n, names_part) ==
    LET key == DateKey(month, Format02d(n))
    IN  IF key \in DATES_WITH_JUNK THEN Put(d, key, JunkNames(names_part))
        ELSE Put(d, key, DefaultNames(names_part))

\* lines 79-102: the entry recorded for a row whose day is the integer n
Record(d, month, n, names_part) ==
    LET key == DateKey(month, Format02d(n))
    IN  IF key \in EMPTY_DATES THEN Put(d, key, <<>>)
        ELSE IF key \in DATES_WITH_JUNK THEN Put(d, key, JunkNames(names_part))
        ELSE Put(d, key, DefaultNames(names_part))

\* the body of `for row in rows` on the cells cols of one row, with the dict
\* d accumulated so far: the dict after the row, or raised = TRUE when
\* int(day) raises ValueError
ProcessRow(d, cols) ==
    IF Len(cols) < 2 THEN [raised |-> FALSE, result |-> d]
    ELSE LET parts == Split(Lower(cols[1]))
         IN  IF Len(parts) # 2 THEN [raised |-> FALSE, result |-> d]
             ELSE LET day   == parts[1]
                      month == MonthGet(parts[2])
                  IN  IF month = <<>> THEN [raised |-> FALSE, result |-> d]
                      ELSE IF ~PyInt(day).ok THEN [raised |-> TRUE, result |-> d]
                      ELSE [raised |-> FALSE,
                            result |-> Record(d, month, PyInt(day).val, cols[2])]

\* the rows of one table behind its header row: table.find_all("tr")[1:]
DataRows(table) == IF table = <<>> THEN <<>> ELSE Tail(table)

RECURSIVE FoldRows(_, _)
FoldRows(acc, rows) ==
    IF rows = <<>> \/ acc.raised THEN acc
    ELSE FoldRows(ProcessRow(acc.result, Head(rows)), Tail(rows))

RECURSIVE FoldTables(_, _)
FoldTables(acc, tables) ==
    IF tables = <<>> \/ acc.raised THEN acc
    ELSE FoldTables(FoldRows(acc, DataRows(Head(tables))), Tail(tables))

\* parse_tables(html), html given as its candidate tables (the tables of class
\* "wikitable"), each the sequence of its rows, each row the stripped texts of
\* its td/th cells
parse_tables(html) == FoldTables([raised |-> FALSE, result |-> EmptyMap], html)

---------------------------------------------------------------------------
(* The pages the extractor is run on: the cells of their rows.             *)

Sp == <<" ">>

\* a day number written with two digits, and written without leading zero
TwoDigits(n) == <<Digits[(n \div 10) + 1], Digits[(n % 10) + 1]>>
Unpadded(n) == IF n < 10 THEN <<Digits[n + 1]>> ELSE TwoDigits(n)

UpperChar(c) ==
    IF \E i \in DOMAIN Lowercase : Lowercase[i] = c
    THEN Uppercase[CHOOSE i \in DOMAIN Lowercase : Lowercase[i] = c]
    ELSE c

\* "januari" written "Januari" and "JANUARI"
Capitalised(s) == <<UpperChar(Head(s))>> \o Tail(s)
AllCaps(s) == [i \in DOMAIN s |-> UpperChar(s[i])]

Casings(s) == {s, Capitalised(s), AllCaps(s)}

\* the days 1..31, with and without a leading zero
GoodDayTokens == {Unpadded(n) : n \in 1..31} \cup {TwoDigits(n) : n \in 1..31}

forsta == <<"f","ö","r","s","t","a">>
\* day tokens that are no day of a month: "0", "00", "32", "100", "-5", and
\* the ordinal "första", which is no integer literal
OddDayTokens == {<<"0">>, <<"0","0">>, <<"3","2">>, <<"1","0","0">>, <<"-","5">>, forsta}

GoodMonthTokens == UNION {Casings(MonthNames[i]) : i \in DOMAIN MonthNames}

\* month tokens the lexicon does not hold: "jan", "january"
OddMonthTokens == {<<"j","a","n">>, <<"j","a","n","u","a","r","y">>}

DateCell(day, month) == day \o Sp \o month

Svea == <<"S","v","e","a">>
Erik == <<"E","r","i","k">>
Erika == <<"E","r","i","k","a">>
Mariana == <<"M","a","r","i","a","n","a">>
Valborg == <<"V","a","l","b","o","r","g">>
Kristoffer == <<"K","r","i","s","t","o","f","f","e","r">>
Christoffer == <<"C","h","r","i","s","t","o","f","f","e","r">>

ErikOchErika == Erik \o Och \o Erika
MarianaValborg == Mariana \o <<" ", "(">> \o Valborg \o <<")">>
KristofferChristoffer == Kristoffer \o <<",", " ">> \o Christoffer

Januari1 == DateCell(<<"1">>, Capitalised(januari))
April30 == DateCell(<<"3","0">>, Capitalised(april))
Mars15 == DateCell(<<"1","5">>, Capitalised(mars))

\* the pieces a generated names cell is made of
NameTokens == {<<"A">>, <<" ">>, <<"(">>, <<")">>, <<",">>, Och}

RECURSIVE TokenTexts(_)
TokenTexts(n) ==
    IF n = 0 THEN {<<>>}
    ELSE LET shorter == TokenTexts(n - 1)
         IN  shorter \cup {t \o tok : t \in shorter, tok \in NameTokens}

\* get_text(strip=True) gives texts with no whitespace at either end
Stripped(t) == t = <<>> \/ (Head(t) \notin Whitespace /\ t[Len(t)] \notin Whitespace)

GeneratedNames == {t \in TokenTexts(MaxToks) : Stripped(t)}

ExampleNames == {Svea, ErikOchErika, MarianaValborg, KristofferChristoffer}

\* date cells that do not read as "<day> <month>": empty, one token, three
\* tokens, and a day glued to its month
BrokenDateCells ==
    { <<>>, januari, DateCell(<<"1">>, januari) \o Sp \o <<"2","0","2","4">>,
      <<"1">> \o januari }

MixedDateCells ==
    { Januari1, DateCell(<<"0","1">>, januari), April30, Mars15,
      DateCell(<<"3","2">>, januari), DateCell(forsta, januari),
      DateCell(<<"1">>, <<"j","a","n">>), <<"1", " ", " ">> \o AllCaps(januari) }
    \cup BrokenDateCells

MixedNames == {Svea, ErikOchErika, <<>>}

Corpora == {"dates", "names", "mixed"}

\* the rows a page of each corpus can hold
\*   dates: every day token with every month token
\*   names: three dates, one per branch of the override resolution, with
\*          every generated names cell
\*   mixed: rows of 0 to 3 cells with a few dates and names
RowsOf(c) ==
    CASE c = "dates" ->
           {<<DateCell(d, m), Svea>> : d \in GoodDayTokens \cup OddDayTokens,
                                       m \in GoodMonthTokens \cup OddMonthTokens}
      [] c = "names" ->
           {<<d, n>> : d \in {Januari1, April30, Mars15},
                       n \in GeneratedNames \cup ExampleNames}
      [] c = "mixed" ->
           {<<>>} \cup {<<d>> : d \in {Januari1, <<>>}}
           \cup {<<d, n>> : d \in MixedDateCells, n \in MixedNames}
           \cup {<<d, Svea, Erik>> : d \in {Mars15, januari}}

\* the dates and names corpora are explored one row and one table at a time
RowLimit(c) == IF c = "mixed" THEN MaxRows ELSE 1
TableLimit(c) == IF c = "mixed" THEN MaxTables ELSE 1

---------------------------------------------------------------------------
(* One run of parse_tables, a step per row.                                *)

\* the service, before any request
ServiceIdle ==
    /\ API_KEY = ""
    /\ kvEnabled = FALSE
    /\ kvStore = [present |-> FALSE, data |-> EmptyMap]
    /\ fileStore = [present |-> FALSE, data |-> EmptyMap]
    /\ NAMEDAYS = EmptyMap
    /\ request = [op |-> "none", x_api_key |-> "", arg |-> <<>>]
    /\ response = [status |-> 0, detail |-> "none", body |-> <<>>]
    /\ fetchCalls = 0
    /\ fetched = [ok |-> FALSE, html |-> <<>>]
    /\ lastData = EmptyMap
    /\ writes = 0

\* lines 54-57: result = {} and the candidate tables found
InitExtract ==
    /\ corpus \in Corpora
    /\ pc = "tables"
    /\ result = EmptyMap
    /\ lastRow = <<>>
    /\ tableNo = 0
    /\ rowNo = 0
    /\ ServiceIdle

\* line 59: the loop takes the next candidate table
EnterTable ==
    /\ pc = "tables"
    /\ tableNo < TableLimit(corpus)
    /\ pc' = "header"
    /\ tableNo' = tableNo + 1
    /\ UNCHANGED <<corpus, result, lastRow, rowNo>>
    /\ UNCHANGED serviceVars

\* line 60: [1:] drops the first row of the table, whatever it holds
SkipHeader ==
    /\ pc = "header"
    /\ pc' = "rows"
    /\ UNCHANGED <<corpus, result, lastRow, tableNo, rowNo>>
    /\ UNCHANGED serviceVars

\* lines 62-102: one iteration of `for row in rows`, on the next row of the
\* page, whose cells are cols
Row ==
    /\ pc = "rows"
    /\ rowNo < RowLimit(corpus)
    /\ \E cols \in RowsOf(corpus) :
          LET r == ProcessRow(result, cols)
          IN  /\ pc' = IF r.raised THEN "raised" ELSE "rows"
              /\ result' = r.result
              /\ lastRow' = cols
    /\ rowNo' = rowNo + 1
    /\ UNCHANGED <<corpus, tableNo>>
    /\ UNCHANGED serviceVars

\* the table has no further row (or no row at all)
EndTable ==
    /\ pc \in {"header", "rows"}
    /\ pc' = "tables"
    /\ UNCHANGED <<corpus, result, lastRow, tableNo, rowNo>>
    /\ UNCHANGED serviceVars

\* line 104: no further table, return result
Return ==
    /\ pc = "tables"
    /\ pc' = "returned"
    /\ UNCHANGED <<corpus, result, lastRow, tableNo, rowNo>>
    /\ UNCHANGED serviceVars

NextExtract ==
    \/ EnterTable
    \/ SkipHeader
    \/ Row
    \/ EndTable
    \/ Return

SpecExtract == InitExtract /\ [][NextExtract]_vars

---------------------------------------------------------------------------
(* Properties of the extractor (SpecExtract).                              *)

\* a Row step has handled the row lastRow
RowHandled == rowNo > 0

\* positions of t where a whitespace-separated token starts
TokenStarts(t) ==
    {i \in DOMAIN t : t[i] \notin Whitespace /\ (i = 1 \/ t[i - 1] \in Whitespace)}

\* the last token of a text that has one
LastToken(t) ==
    LET start == CHOOSE i \in TokenStarts(t) : \A j \in TokenStarts(t) : j <= i
        stop  == CHOOSE i \in DOMAIN t :
                   /\ t[i] \notin Whitespace
                   /\ \A j \in DOMAIN t : t[j] \notin Whitespace => j <= i
    IN  SubSeq(t, start, stop)

\* a row the extractor cannot interpret: fewer than two cells, a date cell
\* that is not two tokens, or a month token outside the lexicon
Uninterpretable(cols) ==
    \/ Len(cols) < 2
    \/ Cardinality(TokenStarts(cols[1])) # 2
    \/ Lower(LastToken(cols[1])) \notin DOMAIN MONTH_MAP

\* a text of the shape MM-DD with month 01..12 and day 01..31
IsDateKey(k) ==
    /\ Len(k) = 5
    /\ k[3] = "-"
    /\ \A i \in {1, 2, 4, 5} : IsDigit(k[i])
    /\ \E m \in 1..12 : <<k[1], k[2]>> = TwoDigits(m)
    /\ \E d \in 1..31 : <<k[4], k[5]>> = TwoDigits(d)

EndsWith(t, suffix) ==
    Len(t) >= Len(suffix) /\ SubSeq(t, Len(t) - Len(suffix) + 1, Len(t)) = suffix

\* the date cell is "<day> <month-name>" for day n, with or without a leading
\* zero, and the month name written m
IsWellFormedCell(t, n, m) ==
    t = DateCell(Unpadded(n), m) \/ t = DateCell(TwoDigits(n), m)

HasParenPair(name) ==
    \E i \in DOMAIN name : \E j \in DOMAIN name : i < j /\ name[i] = "(" /\ name[j] = ")"

Trimmed(name) == name # <<>> /\ Head(name) \notin Whitespace /\ name[Len(name)] \notin Whitespace

Contains(t, sub) ==
    \E i \in 1..(Len(t) - Len(sub) + 1) : SubSeq(t, i, i + Len(sub) - 1) = sub

RECURSIVE Concat(_)
Concat(list) == IF list = <<>> THEN <<>> ELSE Head(list) \o Concat(Tail(list))

\* what separates names: whitespace, commas and the letters of the conjunction
IsContent(c) == c \notin Whitespace \cup {",", "o", "c", "h"}

\* a text without its separators: its content, in order
Content(t) == SelectSeq(t, IsContent)

Key0101 == DateKey(<<"0","1">>, <<"0","1">>)
Key0430 == DateKey(<<"0","4">>, <<"3","0">>)
Key0315 == DateKey(<<"0","3">>, <<"1","5">>)

\* C1 (as claimed): parse_tables raises no error whatever the rows are; a row
\* is recorded or skipped and the run goes on to return a mapping.
C1_NeverRaises == pc # "raised"

\* C2 (as claimed): every key of the mapping is a DateKey MM-DD with month in
\* 01..12 and day in 01..31.
C2_KeysAreDateKeys == \A k \in DOMAIN result : IsDateKey(k)

\* C3: a row of at least two cells whose date cell is "<day> <month-name>",
\* the month name in any letter case and the day 1..31 with or without a
\* leading zero, is recorded under the lexicon's month code, a hyphen and the
\* day padded to two digits.
C3_WellFormedRowRecorded ==
    (RowHandled /\ Len(lastRow) >= 2) =>
        \A i \in DOMAIN MonthNames : \A m \in Casings(MonthNames[i]) :
            EndsWith(lastRow[1], m) =>
                \A n \in 1..31 :
                    IsWellFormedCell(lastRow[1], n, m) =>
                        /\ pc # "raised"
                        /\ DateKey(MONTH_MAP[MonthNames[i]], TwoDigits(n))
                               \in DOMAIN result

\* the row "9 SEPTEMBER" has been recorded under 09-09
C3_Witness ==
    /\ RowHandled
    /\ lastRow = <<DateCell(<<"9">>, AllCaps(september)), Svea>>
    /\ DOMAIN result = {DateKey(<<"0","9">>, <<"0","9">>)}

\* C4: a date of the force-empty set is recorded with the empty name list,
\* whatever its names cell holds; "1 Januari" with "Svea" gives {"01-01": []}.
C4_ForceEmptyWins ==
    /\ \A k \in DOMAIN result \cap EMPTY_DATES : result[k] = <<>>
    /\ (RowHandled /\ Len(lastRow) >= 2 /\ lastRow[1] = Januari1) =>
           (Key0101 \in DOMAIN result /\ result[Key0101] = <<>>)

\* the row "1 Januari" / "Svea" has given {"01-01": []}
C4_Witness ==
    /\ RowHandled
    /\ lastRow = <<Januari1, Svea>>
    /\ result = (Key0101 :> <<>>)

\* C5: for a date of the strip-annotations set, no recorded name holds a "("
\* followed later by a ")", and every recorded name is trimmed and non-empty;
\* "30 April" with "Mariana (Valborg)" gives {"04-30": ["Mariana"]}.
C5_NoParenthesizedText ==
    /\ \A k \in DOMAIN result \cap DATES_WITH_JUNK :
           \A i \in DOMAIN result[k] :
               ~HasParenPair(result[k][i]) /\ Trimmed(result[k][i])
    /\ (RowHandled /\ Len(lastRow) >= 2 /\ lastRow[1] = April30) =>
           /\ Key0430 \in DOMAIN result
           /\ lastRow[2] = MarianaValborg => result[Key0430] = <<Mariana>>

\* "30 April" with the names cell "A(,)", a comma inside the parentheses: the
\* cell is split at the comma first, so both halves are kept
C5_Witness ==
    /\ RowHandled
    /\ lastRow = <<April30, <<"A", "(", ",", ")">>>>
    /\ result = (Key0430 :> << <<"A", "(">>, <<")">> >>)

\* C6: a row that cannot be interpreted (fewer than two cells, a date cell
\* that is not exactly two tokens, a month token outside the lexicon) leaves
\* the mapping as it was, and the run goes on with the next row.
C6_SkippedRowChangesNothing ==
    [][(pc = "rows" /\ rowNo' = rowNo + 1 /\ Uninterpretable(lastRow'))
          => (result' = result /\ pc' = "rows")]_vars

\* a row was skipped while the mapping already held an entry
C6_Witness ==
    /\ rowNo >= 2
    /\ Uninterpretable(lastRow)
    /\ result # EmptyMap
    /\ pc = "rows"

\* C9: on the default path the recorded list is the names cell split at every
\* " och " and every comma, each fragment trimmed, empty fragments dropped:
\* every element is trimmed, non-empty and free of separators, the elements
\* hold the content of the cell in source order (duplicates and parentheses
\* kept), "Erik och Erika" gives ["Erik", "Erika"] and "15 Mars" with
\* "Kristoffer, Christoffer" gives {"03-15": ["Kristoffer", "Christoffer"]}.
C9_DefaultSplit ==
    /\ \A k \in DOMAIN result \ (EMPTY_DATES \cup DATES_WITH_JUNK) :
           \A i \in DOMAIN result[k] :
               /\ Trimmed(result[k][i])
               /\ ~Contains(result[k][i], <<",">>)
               /\ ~Contains(result[k][i], Och)
    /\ (RowHandled /\ Len(lastRow) >= 2 /\ lastRow[1] = Mars15) =>
           /\ Key0315 \in DOMAIN result
           /\ Content(Concat(result[Key0315])) = Content(lastRow[2])
           /\ lastRow[2] = ErikOchErika => result[Key0315] = <<Erik, Erika>>
           /\ lastRow[2] = KristofferChristoffer =>
                  result = (Key0315 :> <<Kristoffer, Christoffer>>)

\* "15 Mars" with "A och (A)": split at the conjunction, the parenthesized
\* text kept
C9_Witness ==
    /\ RowHandled
    /\ lastRow = <<Mars15, <<"A">> \o Och \o <<"(", "A", ")">> >>
    /\ result = (Key0315 :> << <<"A">>, <<"(", "A", ")">> >>)

---------------------------------------------------------------------------
(* main.py: the service.                                                   *)
(*                                                                         *)
(* Every endpoint is an `async def` without any await in its body, so the  *)
(* event loop runs each request handler from its first line to its last    *)
(* before it starts the next one: a handler is one step.                   *)

\* what fetch_html can give: an exception, or the tables of a page
Header == <<<<"D","a","t","u","m">>, <<"N","a","m","n">>>>

\* a page without any candidate table
DocNoTable == <<>>
\* a page whose rows are all noise
DocNoise == << <<Header, <<januari>>, <<DateCell(<<"1">>, <<"j","a","n">>), Svea>>>> >>
DocA == << <<Header, <<Januari1, Svea>>, <<Mars15, KristofferChristoffer>>>> >>
DocB == << <<Header, <<April30, MarianaValborg>>>>,
           <<Header, <<Mars15, ErikOchErika>>, <<<<"f","o","t","n","o","t">>>>>> >>
\* a page with a day that is no integer literal
DocOrdinal == << <<Header, <<Mars15, Svea>>, <<DateCell(forsta, januari), Svea>>>> >>

Docs == {DocNoTable, DocNoise, DocA, DocB, DocOrdinal}

FetchOutcomes ==
    {[ok |-> FALSE, html |-> <<>>]} \cup {[ok |-> TRUE, html |-> d] : d \in Docs}

\* tables found in the stores when the process starts
TableInKv == (Key0101 :> <<>>) @@ (Key0430 :> <<Mariana>>)
TableInFile == (Key0315 :> <<Kristoffer>>)

Absent == [present |-> FALSE, data |-> EmptyMap]
Stored(data) == [present |-> TRUE, data |-> data]

\* values of NAMEDAY_API_KEY and of the x-api-key header
ConfiguredKeys == {"", "secret"}
SentKeys == {"", "secret", "wrong"}

\* load_namedays(): the KV entry when there is a client and an entry, else the
\* JSON file, else {}
load_namedays ==
    IF kvEnabled /\ kvStore.present THEN kvStore.data
    ELSE IF fileStore.present THEN fileStore.data
    ELSE EmptyMap

\* verify_api_key as it would be without the comparison of the keys
VerifyConfiguredOnly(x_api_key) == IF API_KEY = "" THEN 500 ELSE 0

\* verify_api_key(x_api_key): the status of the HTTPException it raises, 0
\* when it returns
verify_api_key(x_api_key) ==
    IF API_KEY = "" THEN 500
    ELSE IF x_api_key # API_KEY THEN 401
    ELSE 0

\* a check of the extraction that lets every mapping through
NeverEmpty(data) == FALSE

\* line 174: `if not data`
IsEmptyExtraction(data) == data = EmptyMap

\* a save that always goes to the JSON file
PersistToFile(data) ==
    /\ fileStore' = Stored(data)
    /\ UNCHANGED kvStore

\* lines 178-182: save to KV if available, otherwise to the file
Persist(data) ==
    IF kvEnabled
    THEN kvStore' = Stored(data) /\ UNCHANGED fileStore
    ELSE fileStore' = Stored(data) /\ UNCHANGED kvStore

\* dict.get(key, [])
Get(d, key) == IF key \in DOMAIN d THEN d[key] ELSE <<>>

RECURSIVE TotalNames(_, _)
\* sum(len(names) for names in d.values()), over the keys ks of d
TotalNames(d, ks) ==
    IF ks = {} THEN 0
    ELSE LET k == CHOOSE x \in ks : TRUE
         IN  Len(d[k]) + TotalNames(d, ks \ {k})

Error(status, detail) == [status |-> status, detail |-> detail, body |-> <<>>]
Ok(body) == [status |-> 200, detail |-> "ok", body |-> body]

\* the extractor is not running on its own while the service is observed
ExtractIdle ==
    /\ corpus = "mixed"
    /\ pc = "tables"
    /\ result = EmptyMap
    /\ lastRow = <<>>
    /\ tableNo = 0
    /\ rowNo = 0

\* module start-up: the configuration is read and NAMEDAYS = load_namedays()
Init ==
    /\ API_KEY \in ConfiguredKeys
    /\ kvEnabled \in BOOLEAN
    /\ kvStore \in {Absent, Stored(TableInKv)}
    /\ ~kvEnabled => kvStore = Absent
    /\ fileStore \in {Absent, Stored(TableInFile)}
    /\ NAMEDAYS = load_namedays
    /\ request = [op |-> "none", x_api_key |-> "", arg |-> <<>>]
    /\ response = [status |-> 0, detail |-> "none", body |-> <<>>]
    /\ fetchCalls = 0
    /\ fetched = [ok |-> FALSE, html |-> <<>>]
    /\ lastData = EmptyMap
    /\ writes = 0
    /\ ExtractIdle

\* POST /api/refresh, lines 166-189
refresh_namedays(x_api_key, fetch) ==
    /\ request' = [op |-> "refresh", x_api_key |-> x_api_key, arg |-> <<>>]
    /\ LET denied == verify_api_key(x_api_key)
       IN  IF denied # 0
           THEN /\ response' = Error(denied, IF denied = 500
                                              THEN "API key not configured on server"
                                              ELSE "Invalid API key")
                /\ UNCHANGED <<kvStore, fileStore, NAMEDAYS, fetchCalls, fetched, lastData, writes>>
           ELSE /\ fetchCalls < MaxFetch
                /\ fetchCalls' = fetchCalls + 1
                /\ fetched' = fetch
                /\ IF ~fetch.ok
                   THEN \* fetch_html raised: the exception leaves the handler
                        /\ response' = Error(500, "FetchFailed")
                        /\ UNCHANGED <<kvStore, fileStore, NAMEDAYS, lastData, writes>>
                   ELSE LET parsed == parse_tables(fetch.html)
                        IN  IF parsed.raised
                            THEN \* int(day) raised: the exception leaves the handler
                                 /\ response' = Error(500, "ValueError")
                                 /\ UNCHANGED <<kvStore, fileStore, NAMEDAYS, lastData, writes>>
                            ELSE IF IsEmptyExtraction(parsed.result)
                            THEN /\ response' = Error(500, "Failed to fetch data from Wikipedia")
                                 /\ UNCHANGED <<kvStore, fileStore, NAMEDAYS, lastData, writes>>
                            ELSE /\ Persist(parsed.result)
                                 /\ NAMEDAYS' = parsed.result
                                 /\ lastData' = parsed.result
                                 /\ writes' = writes + 1
                                 /\ response' =
                                      Ok([status |-> "success",
                                          total_dates |-> Cardinality(DOMAIN parsed.result),
                                          total_names |-> TotalNames(parsed.result,
                                                                     DOMAIN parsed.result)])
    /\ UNCHANGED <<API_KEY, kvEnabled>>
    /\ UNCHANGED extractVars

\* a handler that only reads NAMEDAYS
Reads(op, arg, resp) ==
    /\ request' = [op |-> op, x_api_key |-> "", arg |-> arg]
    /\ response' = resp
    /\ UNCHANGED <<API_KEY, kvEnabled, kvStore, fileStore, NAMEDAYS, fetchCalls,
                   fetched, lastData, writes>>
    /\ UNCHANGED extractVars

\* GET /, lines 59-73
root == Reads("root", <<>>, Ok("Swedish Nameday API"))

\* days of the months of the year 2000, the year datetime(2000, month, day)
\* validates against
DaysIn2000 == <<31, 29, 31, 30, 31, 30, 31, 31, 30, 31, 30, 31>>

DateBody(month, day) ==
    LET date_key == DateKey(Format02d(month), Format02d(day))
        names    == Get(NAMEDAYS, date_key)
    IN  [date |-> date_key, names |-> names, count |-> Len(names)]

\* GET /api/today, lines 75-89, on the day `day` of the month `month`
get_today(month, day) == Reads("today", <<month, day>>, Ok(DateBody(month, day)))

\* GET /api/date/{month}/{day}, lines 91-113
get_date(month, day) ==
    Reads("date", <<month, day>>,
          IF month < 1 \/ month > 12
          THEN Error(400, "Month must be between 1 and 12")
          ELSE IF day < 1 \/ day > 31
          THEN Error(400, "Day must be between 1 and 31")
          ELSE IF day > DaysIn2000[month]
          THEN Error(400, "Invalid date")
          ELSE Ok(DateBody(month, day)))

\* GET /api/name/{name}, lines 115-137; the list `results` is given as the
\* set of its elements
get_name(name) ==
    LET hits(k) == {i \in DOMAIN NAMEDAYS[k] : Lower(NAMEDAYS[k][i]) = Lower(name)}
        first(k) == CHOOSE i \in hits(k) : \A j \in hits(k) : i <= j
        results == {[date |-> k, name |-> NAMEDAYS[k][first(k)]] :
                       k \in {x \in DOMAIN NAMEDAYS : hits(x) # {}}}
    IN  Reads("name", name,
              IF results = {}
              THEN Error(404, "Name not found in nameday calendar")
              ELSE Ok([name |-> name, dates |-> results, count |-> Cardinality(results)]))

StartsWith(t, prefix) == Len(t) >= Len(prefix) /\ SubSeq(t, 1, Len(prefix)) = prefix

\* GET /api/month/{month}, lines 139-154
get_month(month) ==
    LET keys == {k \in DOMAIN NAMEDAYS : StartsWith(k, Format02d(month) \o <<"-">>)}
        month_namedays == [k \in keys |-> NAMEDAYS[k]]
    IN  Reads("month", <<month>>,
              IF month < 1 \/ month > 12
              THEN Error(400, "Month must be between 1 and 12")
              ELSE Ok([month |-> month, namedays |-> month_namedays,
                       count |-> Cardinality(keys)]))

\* GET /api/all, lines 156-163
get_all ==
    Reads("all", <<>>,
          Ok([namedays |-> NAMEDAYS,
              total_dates |-> Cardinality(DOMAIN NAMEDAYS),
              total_names |-> TotalNames(NAMEDAYS, DOMAIN NAMEDAYS)]))

Next ==
    \/ \E x_api_key \in SentKeys : \E fetch \in FetchOutcomes :
           refresh_namedays(x_api_key, fetch)
    \/ root
    \/ \E d \in {<<1, 1>>, <<3, 15>>} : get_today(d[1], d[2])
    \/ \E month \in {0, 2, 3, 13} : \E day \in {0, 15, 30, 32} : get_date(month, day)
    \/ \E name \in {Erik, AllCaps(Mariana), Svea} : get_name(name)
    \/ \E month \in {0, 3, 4} : get_month(month)
    \/ get_all

Spec == Init /\ [][Next]_vars

---------------------------------------------------------------------------
(* Properties of the service (Spec).                                       *)

\* the persisted table: the KV entry when there is a client, else the file
PersistedTable == IF kvEnabled THEN kvStore ELSE fileStore

\* the mappings a refresh can write: what parse_tables returns, when it
\* returns anything, for the pages fetch_html can give
RefreshOutputs ==
    {parse_tables(d).result : d \in {x \in Docs : ~parse_tables(x).raised}} \ {EmptyMap}

TablesUnchanged ==
    NAMEDAYS' = NAMEDAYS /\ kvStore' = kvStore /\ fileStore' = fileStore

\* the step is a refresh that got past the key check and then failed: fetch_html
\* raised, or parse_tables returned an empty mapping
FailedRefresh ==
    /\ request'.op = "refresh"
    /\ fetchCalls' = fetchCalls + 1
    /\ \/ ~fetched'.ok
       \/ /\ ~parse_tables(fetched'.html).raised
          /\ parse_tables(fetched'.html).result = EmptyMap

\* C7: a refresh that ends with FetchFailed or with EmptyExtraction leaves the
\* served table and the persisted table (KV entry and JSON file) exactly as
\* they were, and the caller gets the error.
C7_FailedRefreshKeepsTables ==
    [][FailedRefresh => (TablesUnchanged /\ response'.status = 500)]_vars

\* after a refresh that wrote a table, a refresh of a page of noise has been
\* answered with the error and the table is still served and stored
C7_Witness ==
    /\ request.op = "refresh"
    /\ fetched = [ok |-> TRUE, html |-> DocNoise]
    /\ response = Error(500, "Failed to fetch data from Wikipedia")
    /\ writes > 0
    /\ NAMEDAYS = parse_tables(DocA).result
    /\ PersistedTable = Stored(NAMEDAYS)

Authorised == API_KEY # "" /\ request'.x_api_key = API_KEY

===========================================================================
